---------------------------- MODULE Spec2Model ----------------------------
(* A model of sac/main.py: the experience replay buffer (ExpReplay), the   *)
(* optimization step (optimize_model), the target smoothing rule, the      *)
(* training loop and the evaluation episode.                               *)
(*                                                                         *)
(* Network parameter tensors are modelled by one scalar per network; a     *)
(* gradient step replaces the scalar by any value of ParamValues.  Float   *)
(* arithmetic of the smoothing rule is modelled by exact rationals <<n,d>>.*)
EXTENDS Integers, Sequences, FiniteSets, TLC

VARIABLES
  \* ExpReplay fields (src/sac/main.py:38-45)
  states, actions, rewards, next_states, dones, pointer, max_len,
  \* the last ExpReplay call and what it returned; the number of add calls
  last_call, ret, inserts,
  \* value / target-value parameters and the smoothing coefficient in use
  v, v_target, smoothing_coeff,
  \* history of the smoothing rule: the value parameter read at each
  \* smoothing step and the target after construction and after each step
  snapshots, targets,
  \* policy and critic parameters; Adam's step count per parameter set
  policy, q1_net, q2_net, opt_steps,
  \* optimize_model: V_target(s') as computed at line 134, the losses so far
  V_next_state_vals, J,
  \* the training loop (__main__): position, episode, step counter,
  \* environment observation, action, reward, successor, done flag, losses
  pc, ep, steps, state, action, reward, next_state, done, loss,
  \* evaluate_episode locals: observation fed to the policy, action, done, steps
  ev_state, ev_obs, ev_action, ev_done, ev_steps,
  \* history: operations of the current loop iteration, env.reset() calls of
  \* the training loop, how the last action of each loop was selected, and
  \* the episodes after which an evaluation episode was started
  log, resets, action_by, ev_action_by, eval_log

buffer == <<states, actions, rewards, next_states, dones, pointer, max_len>>
calls  == <<last_call, ret, inserts>>
smooth == <<v, v_target, smoothing_coeff, snapshots, targets>>

nets   == <<policy, q1_net, q2_net, opt_steps>>
optim  == <<V_next_state_vals, J>>
loop   == <<pc, ep, steps, state, action, reward, next_state, done, loss>>
eval   == <<ev_state, ev_obs, ev_action, ev_done, ev_steps>>
hist   == <<log, resets, action_by, ev_action_by, eval_log>>
rest   == <<nets, optim, loop, eval, hist>>
\* what a memory.add call of the loop leaves alone
loop_rest == <<ep, steps, state, action, reward, next_state, done, loss>>

vars == <<buffer, calls, smooth, rest>>

-----------------------------------------------------------------------------
(* Bounds of the model *)

\* largest buffer capacity the buffer specification constructs
MaxCapacity == 5
\* number of add calls the buffer specification makes
MaxInserts == 7
\* largest value a (scalar) parameter takes in the smoothing specification
MaxParam == 3
\* number of smoothing steps the smoothing specification makes
MaxSmooth == 3
\* largest denominator of a target parameter: smoothing stops before it
MaxDenominator == 10000000
\* environment steps the training loop takes in all
MaxSteps == 3
\* environment steps an evaluation episode takes at most
MaxEvalSteps == 2
\* the program's configuration, scaled down: n_episodes = 10000,
\* replay_buffer_size = 1e6, train_batch_size = 256, evaluate_freq = 25
n_episodes == 3
replay_buffer_size == 2
train_batch_size == 2
evaluate_freq == 2

\* reward_scaling = 1
reward_scaling == 1

-----------------------------------------------------------------------------
(* Exact rationals <<n, d>>, d > 0, in lowest terms *)

RECURSIVE GCD(_, _)
GCD(a, b) == IF b = 0 THEN a ELSE GCD(b, a % b)

Abs(x) == IF x < 0 THEN -x ELSE x

Rat(n, d) ==
  LET g == GCD(Abs(n), d) IN <<n \div g, d \div g>>

RatOfInt(i) == <<i, 1>>

RatOne == <<1, 1>>

RatNeg(a) == <<-a[1], a[2]>>

\* a + b over the least common denominator
RatAdd(a, b) ==
  LET l == (a[2] \div GCD(a[2], b[2])) * b[2]
  IN  Rat(a[1] * (l \div a[2]) + b[1] * (l \div b[2]), l)

RatSub(a, b) == RatAdd(a, RatNeg(b))

\* a * b, cancelling across before multiplying
RatMul(a, b) ==
  LET g1 == GCD(Abs(a[1]), b[2])
      g2 == GCD(Abs(b[1]), a[2])
  IN  <<(a[1] \div g1) * (b[1] \div g2), (a[2] \div g2) * (b[2] \div g1)>>

RECURSIVE RatPow(_, _)
RatPow(a, k) == IF k = 0 THEN RatOne ELSE RatMul(a, RatPow(a, k - 1))

-----------------------------------------------------------------------------
(* ExpReplay *)

NoCall == [op |-> "none", batch_size |-> 0, size |-> 0]
None   == [kind |-> "None", batch |-> <<>>]

\* ExpReplay.__init__: five empty lists, pointer 0, max_len = capacity
ExpReplayInit(capacity) ==
  /\ states = <<>>
  /\ actions = <<>>
  /\ next_states = <<>>
  /\ rewards = <<>>
  /\ dones = <<>>
  /\ pointer = 0
  /\ max_len = capacity

\* len(memory)
BufLen == Len(states)

\* the list a slot write leaves: lst[pointer] = x after the optional append(0)
\* (Python index pointer is position pointer + 1 of the sequence)
SlotWrite(lst, grow, x) ==
  LET l == IF grow THEN Append(lst, 0) ELSE lst
  IN  [l EXCEPT ![pointer + 1] = x]

\* a cursor that stops at the last slot instead of wrapping
NextPointer_nowrap == IF pointer + 1 < max_len THEN pointer + 1 ELSE pointer

\* the cursor after a write
NextPointer == (pointer + 1) % max_len

\* add with the capacity test off by one (<= for <)
add_grow_le(exp_tuple) ==
  LET grow == Len(states) <= max_len
  IN  /\ states' = SlotWrite(states, grow, exp_tuple[1])
      /\ actions' = SlotWrite(actions, grow, exp_tuple[2])
      /\ rewards' = SlotWrite(rewards, grow, exp_tuple[3])
      /\ next_states' = SlotWrite(next_states, grow, exp_tuple[4])
      /\ dones' = SlotWrite(dones, grow, exp_tuple[5])
      /\ pointer' = NextPointer
      /\ max_len' = max_len
      /\ inserts' = inserts + 1

\* ExpReplay.add(exp_tuple), exp_tuple = (state, action, reward, next_state, done)
add(exp_tuple) ==
  LET grow == Len(states) < max_len
  IN  /\ states' = SlotWrite(states, grow, exp_tuple[1])
      /\ actions' = SlotWrite(actions, grow, exp_tuple[2])
      /\ rewards' = SlotWrite(rewards, grow, exp_tuple[3])
      /\ next_states' = SlotWrite(next_states, grow, exp_tuple[4])
      /\ dones' = SlotWrite(dones, grow, exp_tuple[5])
      /\ pointer' = NextPointer
      /\ max_len' = max_len
      /\ inserts' = inserts + 1

\* list(zip(states, actions, rewards, next_states, dones)): one row per slot
Population ==
  [i \in 1..Len(states) |->
     <<states[i], actions[i], rewards[i], next_states[i], dones[i]>>]

\* the index sequences random.sample may choose: k pairwise distinct positions
RECURSIVE DistinctSeqs(_, _)
DistinctSeqs(S, k) ==
  IF k = 0 THEN {<<>>}
  ELSE UNION {{<<x>> \o s : s \in DistinctSeqs(S \ {x}, k - 1)} : x \in S}

SampleIndices(n, k) == DistinctSeqs(1..n, k)

\* zip(*rows) unpacked into five names: column c of the chosen rows
Column(rows, c) == [j \in 1..Len(rows) |-> rows[j][c]]

\* what ExpReplay.sample(batch_size) returns when random.sample chose idx
SampleResult(idx) ==
  LET rows == [j \in 1..Len(idx) |-> Population[idx[j]]]
  IN  IF Len(rows) = 0
      THEN \* zip() yields nothing: unpacking into five names raises
           [kind |-> "ValueError", batch |-> <<>>]
      ELSE [kind |-> "batch",
            batch |-> <<Column(rows, 1), Column(rows, 2), Column(rows, 3),
                        Column(rows, 4), Column(rows, 5)>>]

\* a sample that returns what is there when asked for too much
SampleOutcomes_lenient(batch_size) ==
  LET k == IF batch_size > Len(Population) THEN Len(Population) ELSE batch_size
  IN  {SampleResult(idx) : idx \in SampleIndices(Len(Population), k)}

\* the outcomes of ExpReplay.sample(batch_size)
SampleOutcomes(batch_size) ==
  IF batch_size < 0 \/ batch_size > Len(Population)
  THEN \* random.sample: "Sample larger than population or is negative"
       {[kind |-> "ValueError", batch |-> <<>>]}
  ELSE {SampleResult(idx) : idx \in SampleIndices(Len(Population), batch_size)}

\* ExpReplay.sample(batch_size): reads the five lists, writes nothing
sample(batch_size) ==
  /\ ret' \in SampleOutcomes(batch_size)
  /\ last_call' = [op |-> "sample", batch_size |-> batch_size, size |-> BufLen]
  /\ UNCHANGED <<buffer, inserts>>

-----------------------------------------------------------------------------
(* Target smoothing *)

\* target_smoothing_coeff = 0.005
target_smoothing_coeff == <<1, 200>>

\* smoothing with the weights of the parameter and of the target exchanged
SmoothParam_swapped(t_par, par, coeff) ==
  RatAdd(RatMul(t_par, coeff), RatMul(par, RatSub(RatOne, coeff)))

\* par.data*target_smoothing_coeff + t_par.data*(1-target_smoothing_coeff)
SmoothParam(t_par, par, coeff) ==
  RatAdd(RatMul(par, coeff), RatMul(t_par, RatSub(RatOne, coeff)))

\* whether one more smoothing step keeps the target within MaxDenominator
CanSmooth == v_target[2] * smoothing_coeff[2] <= MaxDenominator

\* for t_par, par in zip(v_target_net.parameters(), v_net.parameters()): ...
\* (each network has one scalar parameter here)
SmoothTargetParams ==
  /\ v_target' = SmoothParam(v_target, RatOfInt(v), smoothing_coeff)
  /\ snapshots' = Append(snapshots, v)
  /\ targets' = Append(targets, v_target')
  /\ UNCHANGED <<v, smoothing_coeff>>

\* v_net = VNet(...); v_target_net.load_state_dict(v_net.state_dict())
ValueNetsInit(v0, coeff) ==
  /\ v = v0
  /\ v_target = RatOfInt(v0)
  /\ smoothing_coeff = coeff
  /\ snapshots = <<>>
  /\ targets = <<v_target>>

-----------------------------------------------------------------------------
(* The component specifications below run no training loop: its variables  *)
(* stay at these values.                                                   *)

NoProgram ==
  /\ policy = 0 /\ q1_net = 0 /\ q2_net = 0
  /\ opt_steps = [actor |-> 0, q1 |-> 0, q2 |-> 0, v |-> 0]
  /\ V_next_state_vals = [at |-> 0, val |-> RatOfInt(0)]
  /\ J = <<>>
  /\ pc = "none" /\ ep = 0 /\ steps = 0
  /\ state = 0 /\ action = 0 /\ reward = 0 /\ next_state = 0
  /\ done = FALSE
  /\ loss = <<>>
  /\ ev_state = 0 /\ ev_obs = 0 /\ ev_action = 0 /\ ev_done = FALSE /\ ev_steps = 0
  /\ log = <<>> /\ resets = 0
  /\ action_by = "none" /\ ev_action_by = "none"
  /\ eval_log = <<>>

-----------------------------------------------------------------------------
(* The buffer on its own: a buffer of any capacity, driven by add and      *)
(* sample calls, one call at a time.  The k-th add stores a transition     *)
(* whose reward is k.                                                      *)

Fillers == {<<0, 0, 1, FALSE>>, <<1, 1, 0, TRUE>>}

Transition(f, r) == <<f[1], f[2], r, f[3], f[4]>>

InitBuffer ==
  /\ NoProgram
  /\ \E capacity \in 1..MaxCapacity : ExpReplayInit(capacity)
  /\ last_call = NoCall
  /\ ret = None
  /\ inserts = 0
  /\ ValueNetsInit(0, target_smoothing_coeff)

BufAdd ==
  /\ ret = None
  /\ inserts < MaxInserts
  /\ \E f \in Fillers : add(Transition(f, inserts + 1))
  /\ last_call' = [op |-> "add", batch_size |-> 0, size |-> BufLen]
  /\ ret' = None
  /\ UNCHANGED <<smooth, rest>>

BufSample ==
  /\ ret = None
  /\ \E batch_size \in 0..(max_len + 1) : sample(batch_size)
  /\ UNCHANGED <<smooth, rest>>

\* the caller takes what sample returned (or the exception ends the call)
BufReturn ==
  /\ ret # None
  /\ ret' = None
  /\ last_call' = NoCall
  /\ UNCHANGED <<buffer, inserts, smooth, rest>>

NextBuffer == BufAdd \/ BufSample \/ BufReturn

SpecBuffer == InitBuffer /\ [][NextBuffer]_vars

-----------------------------------------------------------------------------
(* The smoothing rule on its own: the value parameter changes freely       *)
(* (v_net_optimizer.step()) and the target is smoothed towards it, for the *)
(* program's coefficient and for 1/2.                                      *)

Coeffs == {target_smoothing_coeff, <<1, 2>>}

InitSmooth ==
  /\ NoProgram
  /\ ExpReplayInit(1)
  /\ last_call = NoCall
  /\ ret = None
  /\ inserts = 0
  /\ \E v0 \in 0..MaxParam, coeff \in Coeffs : ValueNetsInit(v0, coeff)

ValueStep ==
  /\ \E x \in 0..MaxParam : x # v /\ v' = x
  /\ UNCHANGED <<buffer, calls, v_target, smoothing_coeff, snapshots, targets, rest>>

\* whether d^k <= limit
RECURSIVE PowerFits(_, _, _)
PowerFits(d, k, limit) ==
  k = 0 \/ (limit \div d >= 1 /\ PowerFits(d, k - 1, limit \div d))

SmoothStep ==
  /\ Len(snapshots) < MaxSmooth
  /\ PowerFits(smoothing_coeff[2], Len(snapshots) + 1, MaxDenominator)
  /\ SmoothTargetParams
  /\ UNCHANGED <<buffer, calls, rest>>

NextSmooth == ValueStep \/ SmoothStep

SpecSmooth == InitSmooth /\ [][NextSmooth]_vars

-----------------------------------------------------------------------------
(* The environment and the policy.  The environment is an external         *)
(* collaborator: reset and step return any observation, reward and done    *)
(* flag of these sets.                                                     *)

Obs == {0, 1}
Actions == {0, 1}
\* what env.step returns: <<next_state, reward>>, and any done flag
EnvOutcomes == {<<0, 0>>, <<1, 1>>}
ParamValues == {0, 1}
\* the value of a loss computed from a batch
LossValues == {1}

\* Actor.get_action(state): tanh of a sample of Normal(mean, std), times
\* action_scale: any action
get_action(s) == Actions

\* torch.tanh(action_mean_th) * env.action_space.high: a function of the
\* policy parameters and the observation
MeanAction(p, s) == (p + s) % 2

-----------------------------------------------------------------------------
(* optimize_model *)

\* a guard that lets a buffer one transition short of a batch through
NeedsMoreData_off_by_one == BufLen < train_batch_size - 1

\* if len(memory) < train_batch_size
NeedsMoreData == BufLen < train_batch_size

\* return 0, 0, 0
OptimizeNoOp ==
  /\ pc = "optimize"
  /\ NeedsMoreData
  /\ loss' = <<0, 0, 0>>
  /\ log' = Append(log, "optimize")
  /\ pc' = "smooth"
  /\ UNCHANGED <<buffer, calls, smooth, nets, optim, eval>>
  /\ UNCHANGED <<ep, steps, state, action, reward, next_state, done>>
  /\ UNCHANGED <<resets, action_by, ev_action_by, eval_log>>

\* memory.sample(train_batch_size) and the forward passes, among them
\* V_next_state_vals = v_target_net(next_states_th); an exception of sample
\* ends the program
OptimizeSample ==
  /\ pc = "optimize"
  /\ ~NeedsMoreData
  /\ sample(train_batch_size)
  /\ V_next_state_vals' = [at |-> steps, val |-> v_target]
  /\ pc' = IF ret'.kind = "batch" THEN "value_update" ELSE "raised"
  /\ UNCHANGED <<smooth, nets, J, eval, hist>>
  /\ UNCHANGED <<ep, steps, state, action, reward, next_state, done, loss>>

\* a value update that also copies the new value parameter into the target
ValueUpdate_writes_target ==
  /\ pc = "value_update"
  /\ \E x \in ParamValues :
       /\ v' = x
       /\ v_target' = RatOfInt(x)
  /\ opt_steps' = [opt_steps EXCEPT !.v = @ + 1]
  /\ \E J_v \in LossValues : J' = <<J_v>>
  /\ pc' = "critic_update"
  /\ UNCHANGED <<buffer, calls, smoothing_coeff, snapshots, targets>>
  /\ UNCHANGED <<policy, q1_net, q2_net, V_next_state_vals, eval, hist>>
  /\ UNCHANGED <<ep, steps, state, action, reward, next_state, done, loss>>

\* J_v; v_net_optimizer.zero_grad(); J_v.backward(); v_net_optimizer.step()
ValueUpdate ==
  /\ pc = "value_update"
  /\ v' \in ParamValues
  /\ opt_steps' = [opt_steps EXCEPT !.v = @ + 1]
  /\ \E J_v \in LossValues : J' = <<J_v>>
  /\ pc' = "critic_update"
  /\ UNCHANGED <<buffer, calls, v_target, smoothing_coeff, snapshots, targets>>
  /\ UNCHANGED <<policy, q1_net, q2_net, V_next_state_vals, eval, hist>>
  /\ UNCHANGED <<ep, steps, state, action, reward, next_state, done, loss>>

\* J_q = J_q1 + J_q2; q_net_optimizer.zero_grad(); J_q.backward();
\* q_net_optimizer.step(): one step over the parameters of both critics
CriticUpdate ==
  /\ pc = "critic_update"
  /\ q1_net' \in ParamValues
  /\ q2_net' \in ParamValues
  /\ opt_steps' = [opt_steps EXCEPT !.q1 = @ + 1, !.q2 = @ + 1]
  /\ \E J_q \in LossValues : J' = Append(J, J_q)
  /\ pc' = "policy_update"
  /\ UNCHANGED <<buffer, calls, smooth, policy, V_next_state_vals, eval, hist>>
  /\ UNCHANGED <<ep, steps, state, action, reward, next_state, done, loss>>

\* J_pi; actor_optimizer.zero_grad(); J_pi.backward(); actor_optimizer.step();
\* return J_v, J_q, J_pi
PolicyUpdate ==
  /\ pc = "policy_update"
  /\ policy' \in ParamValues
  /\ opt_steps' = [opt_steps EXCEPT !.actor = @ + 1]
  /\ \E J_pi \in LossValues : loss' = Append(J, J_pi)
  /\ J' = <<>>
  /\ ret' = None
  /\ log' = Append(log, "optimize")
  /\ pc' = "smooth"
  /\ UNCHANGED <<buffer, last_call, inserts, smooth, q1_net, q2_net>>
  /\ UNCHANGED <<V_next_state_vals, eval>>
  /\ UNCHANGED <<ep, steps, state, action, reward, next_state, done>>
  /\ UNCHANGED <<resets, action_by, ev_action_by, eval_log>>

-----------------------------------------------------------------------------
(* The training loop of __main__ *)

\* networks (seeded initial parameters), optimizers, memory = ExpReplay(),
\* steps = 0
Init ==
  /\ ExpReplayInit(replay_buffer_size)
  /\ last_call = NoCall
  /\ ret = None
  /\ inserts = 0
  /\ \E v0 \in ParamValues : ValueNetsInit(v0, target_smoothing_coeff)
  /\ policy = 0
  /\ q1_net = 0
  /\ q2_net = 1
  /\ opt_steps = [actor |-> 0, q1 |-> 0, q2 |-> 0, v |-> 0]
  /\ V_next_state_vals = [at |-> 0, val |-> RatOfInt(0)]
  /\ J = <<>>
  /\ pc = "for" /\ ep = 0 /\ steps = 0
  /\ state = 0 /\ action = 0 /\ reward = 0 /\ next_state = 0
  /\ done = FALSE
  /\ loss = <<>>
  /\ ev_state = 0 /\ ev_obs = 0 /\ ev_action = 0 /\ ev_done = FALSE /\ ev_steps = 0
  /\ log = <<>> /\ resets = 0
  /\ action_by = "none" /\ ev_action_by = "none"
  /\ eval_log = <<>>

\* for ep in range(n_episodes): state = env.reset(); done = False
EpisodeStart ==
  /\ pc = "for"
  /\ ep < n_episodes
  /\ state' \in Obs
  /\ done' = FALSE
  /\ resets' = resets + 1
  /\ log' = <<>>
  /\ pc' = "while"
  /\ UNCHANGED <<buffer, calls, smooth, nets, optim, eval>>
  /\ UNCHANGED <<ep, steps, action, reward, next_state, loss>>
  /\ UNCHANGED <<action_by, ev_action_by, eval_log>>

\* while not done: steps += 1; action = policy.get_action(state)
SelectAction ==
  /\ pc = "while"
  /\ ~done
  /\ steps < MaxSteps
  /\ CanSmooth
  /\ steps' = steps + 1
  /\ action' \in get_action(state)
  /\ action_by' = "get_action"
  /\ log' = <<"select">>
  /\ pc' = "env_step"
  /\ UNCHANGED <<buffer, calls, smooth, nets, optim, eval>>
  /\ UNCHANGED <<ep, state, reward, next_state, done, loss>>
  /\ UNCHANGED <<resets, ev_action_by, eval_log>>

\* next_state, reward, done, info = env.step(action)
EnvStep ==
  /\ pc = "env_step"
  /\ \E o \in EnvOutcomes : next_state' = o[1] /\ reward' = o[2]
  /\ done' \in BOOLEAN
  /\ log' = Append(log, "step")
  /\ pc' = "store"
  /\ UNCHANGED <<buffer, calls, smooth, nets, optim, eval>>
  /\ UNCHANGED <<ep, steps, state, action, loss>>
  /\ UNCHANGED <<resets, action_by, ev_action_by, eval_log>>

\* a store step that goes on to the smoothing, leaving the optimization out
StoreTransition_no_optimize ==
  /\ pc = "store"
  /\ add(<<state, action, reward_scaling * reward, next_state, done>>)
  /\ last_call' = [op |-> "add", batch_size |-> 0, size |-> BufLen]
  /\ ret' = None
  /\ log' = Append(log, "add")
  /\ pc' = "smooth"
  /\ UNCHANGED <<smooth, nets, optim, loop_rest, eval>>
  /\ UNCHANGED <<resets, action_by, ev_action_by, eval_log>>

\* exp_tuple = (state, action, reward_scaling*reward, next_state, done);
\* memory.add(exp_tuple)
StoreTransition ==
  /\ pc = "store"
  /\ add(<<state, action, reward_scaling * reward, next_state, done>>)
  /\ last_call' = [op |-> "add", batch_size |-> 0, size |-> BufLen]
  /\ ret' = None
  /\ log' = Append(log, "add")
  /\ pc' = "optimize"
  /\ UNCHANGED <<smooth, nets, optim, loop_rest, eval>>
  /\ UNCHANGED <<resets, action_by, ev_action_by, eval_log>>

\* the target smoothing loop; state = next_state
SmoothTarget ==
  /\ pc = "smooth"
  /\ SmoothTargetParams
  /\ state' = next_state
  /\ log' = Append(log, "smooth")
  /\ pc' = "while"
  /\ UNCHANGED <<buffer, calls, nets, optim, eval>>
  /\ UNCHANGED <<ep, steps, action, reward, next_state, done, loss>>
  /\ UNCHANGED <<resets, action_by, ev_action_by, eval_log>>

\* an evaluation trigger that counts episodes from 1
EvaluationDue_from_one == (ep + 1) % evaluate_freq = 0

\* if ep % evaluate_freq == 0
EvaluationDue == ep % evaluate_freq = 0

\* the end of the while loop: the writer calls, then the evaluation test
EpisodeEnd ==
  /\ pc = "while"
  /\ done
  /\ IF EvaluationDue
     THEN pc' = "evaluate" /\ ep' = ep
     ELSE pc' = "for" /\ ep' = ep + 1
  /\ UNCHANGED <<buffer, calls, smooth, nets, optim, eval, hist>>
  /\ UNCHANGED <<steps, state, action, reward, next_state, done, loss>>

-----------------------------------------------------------------------------
(* evaluate_episode *)

\* done = False; state = env.reset(); steps = 0
EvalReset ==
  /\ pc = "evaluate"
  /\ ev_done' = FALSE
  /\ ev_state' \in Obs
  /\ ev_steps' = 0
  /\ eval_log' = Append(eval_log, ep)
  /\ pc' = "eval_while"
  /\ UNCHANGED <<buffer, calls, smooth, nets, optim, ev_obs, ev_action>>
  /\ UNCHANGED <<ep, steps, state, action, reward, next_state, done, loss>>
  /\ UNCHANGED <<log, resets, action_by, ev_action_by>>

\* an evaluation step that selects its action with get_action
EvalStep_stochastic ==
  /\ pc = "eval_while"
  /\ ~ev_done
  /\ ev_steps < MaxEvalSteps
  /\ ev_obs' = ev_state
  /\ ev_action' \in get_action(ev_state)
  /\ ev_action_by' = "get_action"
  /\ ev_steps' = ev_steps + 1
  /\ ev_state' \in Obs
  /\ ev_done' \in BOOLEAN
  /\ UNCHANGED <<buffer, calls, smooth, nets, optim, loop>>
  /\ UNCHANGED <<log, resets, action_by, eval_log>>

\* an evaluation step that stores its transition and counts a training step
EvalStep_stores ==
  /\ pc = "eval_while"
  /\ ~ev_done
  /\ ev_steps < MaxEvalSteps
  /\ ev_obs' = ev_state
  /\ ev_action' = MeanAction(policy, ev_state)
  /\ ev_action_by' = "mean"
  /\ ev_steps' = ev_steps + 1
  /\ ev_state' \in Obs
  /\ ev_done' \in BOOLEAN
  /\ add(<<ev_state, ev_action', 0, ev_state', ev_done'>>)
  /\ UNCHANGED <<last_call, ret, smooth, nets, optim, loop>>
  /\ UNCHANGED <<log, resets, action_by, eval_log>>

\* while not done: env.render(); policy.forward(state); steps += 1;
\* action = tanh(mean) * high; next_state, reward, done, _ = env.step(action);
\* state = next_state
EvalStep ==
  /\ pc = "eval_while"
  /\ ~ev_done
  /\ ev_steps < MaxEvalSteps
  /\ ev_obs' = ev_state
  /\ ev_action' = MeanAction(policy, ev_state)
  /\ ev_action_by' = "mean"
  /\ ev_steps' = ev_steps + 1
  /\ ev_state' \in Obs
  /\ ev_done' \in BOOLEAN
  /\ UNCHANGED <<buffer, calls, smooth, nets, optim, loop>>
  /\ UNCHANGED <<log, resets, action_by, eval_log>>

\* return rew_ep (the locals go); writer.add_scalar('eval/rewards', ...);
\* the next episode
EvalEnd ==
  /\ pc = "eval_while"
  /\ ev_done
  /\ ep' = ep + 1
  /\ pc' = "for"
  /\ ev_state' = 0 /\ ev_obs' = 0 /\ ev_action' = 0
  /\ ev_done' = FALSE /\ ev_steps' = 0
  /\ ev_action_by' = "none"
  /\ UNCHANGED <<buffer, calls, smooth, nets, optim>>
  /\ UNCHANGED <<log, resets, action_by, eval_log>>
  /\ UNCHANGED <<steps, state, action, reward, next_state, done, loss>>

Next ==
  \/ EpisodeStart
  \/ SelectAction
  \/ EnvStep
  \/ StoreTransition
  \/ OptimizeNoOp
  \/ OptimizeSample
  \/ ValueUpdate
  \/ CriticUpdate
  \/ PolicyUpdate
  \/ SmoothTarget
  \/ EpisodeEnd
  \/ EvalReset
  \/ EvalStep
  \/ EvalEnd

Spec == Init /\ [][Next]_vars

-----------------------------------------------------------------------------
(* Properties of the buffer, checked under SpecBuffer *)

Min(a, b) == IF a < b THEN a ELSE b

Range(f) == {f[i] : i \in DOMAIN f}

\* the five lists always have one length
ListsAligned ==
  /\ Len(actions) = Len(states)
  /\ Len(rewards) = Len(states)
  /\ Len(next_states) = Len(states)
  /\ Len(dones) = Len(states)

\* C1: after k add calls on an empty buffer of capacity C, len(memory) is
\* min(k, C); an add on a buffer holding C transitions leaves it at C.
C1_SizeIsMinInsertsCapacity ==
  /\ ListsAligned
  /\ BufLen = Min(inserts, max_len)

\* C1 witness: adds were made on a buffer already holding max_len transitions
C1_Witness ==
  /\ max_len = 3
  /\ inserts = max_len + 2
  /\ BufLen = max_len

\* the transition an add on a full buffer must remove: the earliest stored
Oldest == CHOOSE row \in Range(Population) :
            \A other \in Range(Population) : row[3] <= other[3]

\* C2: an add stores its transition and, on a full buffer, removes exactly
\* the transition stored earliest; the buffer then holds exactly the
\* min(k, C) most recently added transitions (the k-th add has reward k).
C2_OverwritesOldest ==
  [][inserts' = inserts + 1 =>
       /\ \E row \in Range(Population') :
            /\ row[3] = inserts'
            /\ Range(Population') =
                 (Range(Population) \ (IF BufLen = max_len THEN {Oldest} ELSE {}))
                    \cup {row}
       /\ Range(rewards') = (inserts' - Min(inserts', max_len) + 1)..inserts'
       /\ Len(rewards') = Min(inserts', max_len)]_vars

\* C2 witness: capacity 5, rewards 1..7 added in order, {3,...,7} are stored
C2_Witness ==
  /\ max_len = 5
  /\ inserts = 7
  /\ Range(rewards) = 3..7
  /\ BufLen = 5

\* a batch of b transitions read from b pairwise distinct slots of the buffer
IsBatchOfDistinctSlots(r, b) ==
  /\ r.kind = "batch"
  /\ \A c \in 1..5 : Len(r.batch[c]) = b
  /\ \E idx \in SampleIndices(BufLen, b) :
       \A j \in 1..b :
          /\ r.batch[1][j] = states[idx[j]]
          /\ r.batch[2][j] = actions[idx[j]]
          /\ r.batch[3][j] = rewards[idx[j]]
          /\ r.batch[4][j] = next_states[idx[j]]
          /\ r.batch[5][j] = dones[idx[j]]

\* C3: sample(b) on a buffer of size n >= b returns exactly b transitions
\* from b pairwise distinct slots, each with its five fields from one slot.
C3_SampleReturnsDistinctStored ==
  (last_call.op = "sample" /\ last_call.batch_size <= last_call.size)
     => IsBatchOfDistinctSlots(ret, last_call.batch_size)

\* sample(b) with 1 <= b <= n does return such a batch: C3 fails at b = 0 only
SampleOfPositiveSize ==
  (last_call.op = "sample" /\ last_call.batch_size >= 1
      /\ last_call.batch_size <= last_call.size)
     => IsBatchOfDistinctSlots(ret, last_call.batch_size)

\* a sample call writes no field of the buffer
SampleWritesNothing ==
  [][last_call'.op = "sample" => UNCHANGED <<buffer, inserts>>]_vars

\* C4 as stated: sample(b) with b greater than the current size fails with
\* an InsufficientDataError.
C4_FailsWithInsufficientDataError ==
  (last_call.op = "sample" /\ last_call.batch_size > last_call.size)
     => ret.kind = "InsufficientDataError"

\* C4 as amended: sample(b) with b greater than the current size returns no
\* batch; it fails with the ValueError random.sample raises.
C4_FailsWithValueError ==
  (last_call.op = "sample" /\ last_call.batch_size > last_call.size)
     => (ret.kind = "ValueError" /\ ret.batch = <<>>)

\* C4 witness: sample(3) was called on a buffer holding 2 transitions
C4_Witness ==
  /\ last_call = [op |-> "sample", batch_size |-> 3, size |-> 2]
  /\ BufLen = 2
  /\ ret.kind = "ValueError"

-----------------------------------------------------------------------------
(* Properties of the smoothing rule, checked under SpecSmooth *)

\* sum over i = 1..k of coeff * (1 - coeff)^(n - i) * snaps[i]
RECURSIVE WeightedSum(_, _, _, _)
WeightedSum(snaps, coeff, n, k) ==
  IF k = 0 THEN RatOfInt(0)
  ELSE RatAdd(WeightedSum(snaps, coeff, n, k - 1),
              RatMul(RatMul(coeff, RatPow(RatSub(RatOne, coeff), n - k)),
                     RatOfInt(snaps[k])))

\* the exponential moving average of the snapshots and the initial target
ClosedFormEMA(t0, snaps, coeff) ==
  RatAdd(RatMul(RatPow(RatSub(RatOne, coeff), Len(snaps)), t0),
         WeightedSum(snaps, coeff, Len(snaps), Len(snaps)))

\* C6: every smoothing step sets the target to coeff * param +
\* (1 - coeff) * target with the value parameter current at that step, so the
\* target after N steps is the closed-form exponential moving average of the
\* N snapshots and the initial target; coefficient 1/2, initial target 0 and
\* snapshots 1, 2, 3 give the targets 0, 1/2, 5/4, 17/8.
C6_TargetIsEMA ==
  /\ Len(targets) = Len(snapshots) + 1
  /\ targets[Len(targets)] = v_target
  /\ \A k \in 1..Len(snapshots) :
       LET cn == smoothing_coeff[1]
           cd == smoothing_coeff[2]
           t  == targets[k]
       IN  targets[k + 1] =
             Rat(cn * snapshots[k] * t[2] + (cd - cn) * t[1], cd * t[2])
  /\ v_target = ClosedFormEMA(targets[1], snapshots, smoothing_coeff)
  /\ (smoothing_coeff = <<1, 2>> /\ targets[1] = <<0, 1>> /\ snapshots = <<1, 2, 3>>)
        => targets = << <<0, 1>>, <<1, 2>>, <<5, 4>>, <<17, 8>> >>

\* C6 witness: three smoothing steps with coefficient 1/2 over the value
\* parameters 1, 2, 3 from the initial target 0
C6_Witness ==
  /\ smoothing_coeff = <<1, 2>>
  /\ snapshots = <<1, 2, 3>>
  /\ targets = << <<0, 1>>, <<1, 2>>, <<5, 4>>, <<17, 8>> >>
  /\ v_target = <<17, 8>>

-----------------------------------------------------------------------------
(* Properties of the training loop, checked under Spec *)

\* C5: optimize_model called while the buffer holds fewer than
\* train_batch_size transitions calls no sample, returns the losses 0, 0, 0
\* and changes no parameter and no buffer content; sample is only ever called
\* with a batch size that is at most the current size of the buffer.
C5_NoOpBelowBatchSize ==
  [][/\ (pc = "optimize" /\ BufLen < train_batch_size) =>
          /\ loss' = <<0, 0, 0>>
          /\ pc' = "smooth"
          /\ UNCHANGED <<policy, q1_net, q2_net, v, v_target, opt_steps>>
          /\ UNCHANGED <<buffer, inserts, last_call, ret>>
     /\ last_call'.op = "sample" => last_call'.batch_size <= last_call'.size
    ]_vars

\* C5 witness: an optimization step has just returned from its no-op path
C5_Witness ==
  /\ pc = "smooth"
  /\ BufLen < train_batch_size
  /\ log = <<"select", "step", "add", "optimize">>
  /\ loss = <<0, 0, 0>>
  /\ last_call.op = "add"

\* C7: at construction the target parameters equal the value parameters;
\* policy parameters change only in the policy update, the parameters of the
\* two critics only in the critic update and both in that one step, value
\* parameters only in the value update, target parameters only in the
\* smoothing step.
C7_SingleWriters ==
  /\ v_target = RatOfInt(v)
  /\ [][/\ (policy' # policy \/ opt_steps'.actor # opt_steps.actor)
              => pc = "policy_update"
        /\ (q1_net' # q1_net \/ q2_net' # q2_net
              \/ opt_steps'.q1 # opt_steps.q1 \/ opt_steps'.q2 # opt_steps.q2)
              => pc = "critic_update"
        /\ opt_steps'.q1 = opt_steps'.q2
        /\ (v' # v \/ opt_steps'.v # opt_steps.v) => pc = "value_update"
        /\ v_target' # v_target => pc = "smooth"
       ]_vars

\* C7 witness: every parameter set has been written and the target lags
C7_Witness ==
  /\ pc = "while"
  /\ opt_steps = [actor |-> 2, q1 |-> 2, q2 |-> 2, v |-> 2]
  /\ Len(snapshots) = 3
  /\ v_target # RatOfInt(v)
  /\ policy = 1 /\ q1_net = 1 /\ q2_net = 0

StepOrder == <<"select", "step", "add", "optimize", "smooth">>

\* the slot the last add wrote
LastSlot == ((pointer + max_len - 1) % max_len) + 1

\* C8: an episode resets once and then repeats, until done is set, select
\* action, step environment, add the resulting transition (one add per
\* environment step), optimize, smooth; the smoothing runs once per
\* environment step, right after the optimization, and an optimization reads
\* the target parameters as they were before its step's smoothing.
C8_StepOrder ==
  /\ Len(log) <= Len(StepOrder)
  /\ \A i \in 1..Len(log) : log[i] = StepOrder[i]
  /\ pc \in {"for", "while", "evaluate", "eval_while"} => log \in {<<>>, StepOrder}
  /\ resets = IF pc = "for" THEN ep ELSE ep + 1
  /\ inserts = IF Len(log) \in {1, 2} THEN steps - 1 ELSE steps
  /\ Len(snapshots) = IF Len(log) \in 1..4 THEN steps - 1 ELSE steps
  /\ Len(log) \in {3, 4} =>
        Population[LastSlot] = <<state, action, reward_scaling * reward, next_state, done>>
  /\ log = <<"select">> => ~done
  /\ (pc \in {"evaluate", "eval_while"} \/ (pc = "for" /\ ep > 0)) => done
  /\ V_next_state_vals.at >= 1 =>
        /\ V_next_state_vals.at <= Len(targets)
        /\ V_next_state_vals.val = targets[V_next_state_vals.at]

\* C8 witness: an episode of two steps has ended, its second step with an
\* optimization that read the target of before that step's smoothing
C8_Witness ==
  /\ pc = "while"
  /\ done
  /\ ep = 0
  /\ steps = 2
  /\ log = StepOrder
  /\ inserts = 2
  /\ Len(snapshots) = 2
  /\ V_next_state_vals.at = 2
  /\ V_next_state_vals.val # v_target

\* the episodes among the first n after which an evaluation episode runs
EvaluatedEpisodes(n) ==
  [i \in 1..((n + evaluate_freq - 1) \div evaluate_freq) |-> (i - 1) * evaluate_freq]

\* C9: training selects every action with get_action (the stochastic
\* policy), evaluation selects every action as tanh(mean) * action_scale
\* without sampling; exactly one evaluation episode runs after training
\* episode ep when ep is a multiple of evaluate_freq, and none otherwise.
C9_SelectionAndEvaluationTrigger ==
  /\ steps >= 1 => action_by = "get_action"
  /\ steps = 0 => action_by = "none"
  /\ ev_steps >= 1 =>
        /\ ev_action_by = "mean"
        /\ ev_action = MeanAction(policy, ev_obs)
  /\ pc = "evaluate" => ep % evaluate_freq = 0
  /\ eval_log = EvaluatedEpisodes(IF pc = "eval_while" THEN ep + 1 ELSE ep)

\* C9 witness: three episodes have run, with evaluations after episodes 0
\* and 2 and none after episode 1
C9_Witness ==
  /\ pc = "for"
  /\ ep = 3
  /\ eval_log = <<0, 2>>
  /\ action_by = "get_action"

\* a reachable state in which an evaluation episode has selected two actions
EvaluationActed ==
  /\ pc = "eval_while"
  /\ ev_steps = 2
  /\ ev_action_by = "mean"

\* C10: an evaluation episode changes neither the buffer nor any parameter
\* nor the training step counter; only the rollout loop's add writes the
\* buffer.
C10_EvaluationObservesOnly ==
  [][/\ pc \in {"evaluate", "eval_while"} =>
          /\ UNCHANGED <<buffer, inserts>>
          /\ UNCHANGED <<policy, q1_net, q2_net, v, v_target, opt_steps>>
          /\ UNCHANGED steps
     /\ buffer' # buffer => pc = "store"
    ]_vars

\* C10 witness: an evaluation episode of two steps has ended, after an
\* optimization step that did update the parameters
C10_Witness ==
  /\ pc = "eval_while"
  /\ ev_done
  /\ ev_steps = 2
  /\ ep = 2
  /\ BufLen = 2
  /\ opt_steps.actor >= 1

=============================================================================
